---------------------------- MODULE Spec2Model ----------------------------
(***************************************************************************)
(* Eigenvector continuation from transition density matrices (evcont).     *)
(*                                                                         *)
(* Three components are modelled:                                          *)
(*   - the t-RDM accumulators of EVCont/DMRG_EVCont.py (SpecAcc),          *)
(*   - the generalised eigenproblem solver of                              *)
(*     evcont/ab_initio_eigenvector_continuation.py (SpecSolve),           *)
(*   - get_energy_with_grad of EVCont/ab_initio_gradients_loewdin_np.py    *)
(*     (SpecGrad).                                                         *)
(*                                                                         *)
(* Training and orbital indices are 0-based as in the source.  Arrays are  *)
(* functions from index tuples to numbers.  Complex scalars are records    *)
(* [re, im]; the accumulated arrays are float64 (np.ones) and keep the     *)
(* real part of what is assigned into them.                                *)
(***************************************************************************)
EXTENDS Integers, Sequences, FiniteSets, TLC

\* ------------------------------------------------------------------ bounds
Norb == 2          \* orbitals per geometry
MaxTag == 11       \* largest training index whose file names are compared
MaxMols == 3       \* largest training set the accumulator is grown to
NumResp == 2       \* distinct responses of the external wavefunction solver
MaxTrn == 2        \* largest training set handed to the eigenproblem solver
NumSamples == 2    \* distinct sets of integrals and t-RDMs handed to it
NumMols == 3       \* distinct molecules handed to get_energy_with_grad
NumProcs == 2      \* MPI processes
Natm == 2          \* atoms per molecule

\* ------------------------------------------------------- program constants
(* abs(vals.imag) < 1.0e-5: imaginary parts are counted in units of 1e-6  *)
ImagTol == 10

Orb == 0..(Norb - 1)

VARIABLES
    \* the accumulator (DMRG_EVCont.py)
    nmols,         \* len(mols) of the last append; 0 before the first
    overlap,       \* arrays returned by the last append (None before)
    one_rdm,
    two_rdm,
    in_overlap,    \* the arrays that were passed to the last append
    in_one_rdm,
    in_two_rdm,
    arg_overlap,   \* the content of the passed array objects on return
    arg_one_rdm,
    arg_two_rdm,
    called,        \* which accumulator ran last
    solved,        \* what the solver returned for each ket of the last append
    self_ovlp,     \* the self-overlap the solver returned at each append
    last,          \* how the last append ended, and what it did in order
    disk,          \* the persisted files and tags: key -> index that wrote it
    \* the eigenproblem solver (ab_initio_eigenvector_continuation.py)
    sample,        \* which integrals and t-RDMs the caller holds
    n_trn,         \* their training dimension Ntrn
    hermitian,     \* the caller's hermitian flag
    memo,          \* what scipy's eigh/eig answered, per problem posed to it
    res,           \* the outcome of the last call
    ref,           \* the outcome of the last approximate_ground_state call
                   \* made with the full 6-index two_RDM
    \* the gradient engine (ab_initio_gradients_loewdin_np.py)
    mol,           \* the molecule handed to get_energy_with_grad
    grad,          \* what its last call returned
    \* loewdin_trafo_grad (ab_initio_gradients_loewdin_np.py)
    ovlp_vals,     \* the eigenvalues eigh returned for the overlap matrix
    v_sample,      \* which projected perturbation Vji goes with them
    Z,             \* the coefficients Zji of the last call
    \* the MPI broadcasts (DMRG_EVCont.py)
    job,           \* the append the processes run: len(mols), solver sample
    world,         \* each process's position and private arrays
    wire,          \* the buffers the root has broadcast, in order
    \* append_to_rdms_rerun on several processes (DMRG_EVCont.py)
    ranks,         \* each process's len(mols), position, loop index, Bcasts
    basis_files,   \* basis_{i}.npy in the shared directory
    reads          \* what every np.load of a basis file found

accVars == <<nmols, overlap, one_rdm, two_rdm, in_overlap, in_one_rdm,
             in_two_rdm, arg_overlap, arg_one_rdm, arg_two_rdm, called,
             solved, self_ovlp, last, disk>>

solveVars == <<sample, n_trn, hermitian, memo, res, ref>>

gradVars == <<mol, grad>>

loewdinVars == <<ovlp_vals, v_sample, Z>>

mpiVars == <<job, world, wire>>

rerunMpiVars == <<ranks, basis_files, reads>>

vars == <<accVars, solveVars, gradVars, loewdinVars, mpiVars, rerunMpiVars>>

\* --------------------------------------------------------- numpy helpers
(* An array of rank k is a function of its first index whose values are   *)
(* arrays of rank k-1; a[i][j] is numpy's a[i, j].                        *)
None == <<>>

Trn(n) == 0..(n - 1)

\* np.ones(shape): float64 arrays of ones
np_ones2(n) == [a \in Trn(n) |-> [b \in Trn(n) |-> 1]]
np_ones4(n) == [a \in Trn(n) |-> [b \in Trn(n) |-> [p \in Orb |-> [q \in Orb |-> 1]]]]
np_ones6(n) ==
    [a \in Trn(n) |-> [b \in Trn(n) |->
       [p \in Orb |-> [q \in Orb |-> [r \in Orb |-> [t \in Orb |-> 1]]]]]]

\* z.conj() of a scalar, of a matrix, of a 4-index block
conj(z) == [re |-> z.re, im |-> 0 - z.im]
conj2(m) == [p \in DOMAIN m |-> [q \in DOMAIN m[p] |-> conj(m[p][q])]]
conj4(m) == [p \in DOMAIN m |-> [q \in DOMAIN m[p] |-> conj2(m[p][q])]]

\* assignment of (possibly complex) values into a float64 array keeps the
\* real parts
as_float(z) == z.re
as_float2(m) == [p \in DOMAIN m |-> [q \in DOMAIN m[p] |-> as_float(m[p][q])]]
as_float4(m) == [p \in DOMAIN m |-> [q \in DOMAIN m[p] |-> as_float2(m[p][q])]]

\* new[:-1, :-1, ...] = old : every block of old lands at its own index
assign_leading(new, old) ==
    [a \in DOMAIN new |-> [b \in DOMAIN new[a] |->
        IF a \in DOMAIN old /\ b \in DOMAIN old[a]
        THEN old[a][b] ELSE new[a][b]]]

\* ---------------------------------------------- the external collaborators
(* What the wavefunction solver (and transform_integrals) hand back for   *)
(* the pair (bra = newest state, ket = state i): the overlap <bra|ket>    *)
(* and the one- and two-body transition density matrices.  Between two    *)
(* different states the answer is any complex scalar and any matrices     *)
(* (not symmetric in general).  A state against itself gives a real       *)
(* overlap, which is 1 only when the solver returns a normalised state    *)
(* (answer 1), and a Hermitian one-body density matrix.                   *)
PairResponse(s, i) ==
    [ovlp |-> [re |-> s + i, im |-> s - 1],
     rdm1 |-> [p \in Orb |-> [q \in Orb |->
                 [re |-> s * p + q + i, im |-> (s - 1) * (p - q)]]],
     rdm2 |-> [p \in Orb |-> [q \in Orb |-> [r \in Orb |-> [t \in Orb |->
                 [re |-> s + p + 2 * q + 3 * r + 5 * t + i,
                  im |-> (s - 1) * (p - t)]]]]]]

SelfResponse(s) ==
    [ovlp |-> [re |-> s, im |-> 0],
     rdm1 |-> [p \in Orb |-> [q \in Orb |->
                 [re |-> s * (p + q), im |-> (s - 1) * (p - q)]]],
     rdm2 |-> [p \in Orb |-> [q \in Orb |-> [r \in Orb |-> [t \in Orb |->
                 [re |-> s + (p + q) * (r + t),
                  im |-> (s - 1) * (p - q + r - t)]]]]]]

\* ---------------------------------------- append_to_rdms_rerun
\* lines 69-77: fresh arrays of ones, the passed arrays copied into
\* the leading block
rerun_alloc(n, ov, r1, r2) ==
    [overlap_new |-> IF ov # None THEN assign_leading(np_ones2(n), ov)
                     ELSE np_ones2(n),
     one_rdm_new |-> IF r1 # None THEN assign_leading(np_ones4(n), r1)
                     ELSE np_ones4(n),
     two_rdm_new |-> IF r2 # None THEN assign_leading(np_ones6(n), r2)
                     ELSE np_ones6(n),
     overlap |-> ov, one_rdm |-> r1, two_rdm |-> r2]

\* a loop body that forgets the mirrored overlap write
rerun_write_no_mirror(i, n, st, r) ==
    [st EXCEPT !.overlap_new[n - 1][i] = as_float(r.ovlp),
               !.one_rdm_new[n - 1][i] = as_float2(r.rdm1),
               !.two_rdm_new[n - 1][i] = as_float4(r.rdm2)]

\* lines 112-117: the six writes of one loop iteration, in order
rerun_write(i, n, st, r) ==
    LET o1 == [st.overlap_new EXCEPT ![n - 1][i] = as_float(r.ovlp)]
        o2 == [o1 EXCEPT ![i][n - 1] = as_float(conj(r.ovlp))]
        a1 == [st.one_rdm_new EXCEPT ![n - 1][i] = as_float2(r.rdm1)]
        a2 == [a1 EXCEPT ![i][n - 1] = as_float2(conj2(r.rdm1))]
        b1 == [st.two_rdm_new EXCEPT ![n - 1][i] = as_float4(r.rdm2)]
        b2 == [b1 EXCEPT ![i][n - 1] = as_float4(conj4(r.rdm2))]
    IN  [st EXCEPT !.overlap_new = o2, !.one_rdm_new = a2, !.two_rdm_new = b2]

\* lines 79-117: for i, mol_ket in enumerate(mols)
RECURSIVE rerun_loop(_, _, _, _)
rerun_loop(i, n, st, resp) ==
    IF i = n THEN st
    ELSE rerun_loop(i + 1, n, rerun_write(i, n, st, resp[i]), resp)

append_to_rdms_rerun(n, ov, r1, r2, resp) ==
    rerun_loop(0, n, rerun_alloc(n, ov, r1, r2), resp)

\* ---------------------------------------- append_to_rdms_orbital_rotation
(* The root process (rank 0) is modelled: it alone runs the loop, and the *)
(* broadcasts of lines 227-243 copy the root's arrays onto themselves.    *)
\* lines 154-162: fresh arrays of ones, the passed arrays copied into
\* the leading block
orbital_rotation_alloc(n, ov, r1, r2) ==
    [overlap_new |-> IF ov # None THEN assign_leading(np_ones2(n), ov)
                     ELSE np_ones2(n),
     one_rdm_new |-> IF r1 # None THEN assign_leading(np_ones4(n), r1)
                     ELSE np_ones4(n),
     two_rdm_new |-> IF r2 # None THEN assign_leading(np_ones6(n), r2)
                     ELSE np_ones6(n),
     overlap |-> ov, one_rdm |-> r1, two_rdm |-> r2]

\* lines 220-225: the six writes of one loop iteration, in order
orbital_rotation_write(i, n, st, r) ==
    LET o1 == [st.overlap_new EXCEPT ![n - 1][i] = as_float(r.ovlp)]
        o2 == [o1 EXCEPT ![i][n - 1] = as_float(conj(r.ovlp))]
        a1 == [st.one_rdm_new EXCEPT ![n - 1][i] = as_float2(r.rdm1)]
        a2 == [a1 EXCEPT ![i][n - 1] = as_float2(conj2(r.rdm1))]
        b1 == [st.two_rdm_new EXCEPT ![n - 1][i] = as_float4(r.rdm2)]
        b2 == [b1 EXCEPT ![i][n - 1] = as_float4(conj4(r.rdm2))]
    IN  [st EXCEPT !.overlap_new = o2, !.one_rdm_new = a2, !.two_rdm_new = b2]

\* lines 177-225: for i, mol_ket in enumerate(mols)
RECURSIVE orbital_rotation_loop(_, _, _, _)
orbital_rotation_loop(i, n, st, resp) ==
    IF i = n THEN st
    ELSE orbital_rotation_loop(i + 1, n, orbital_rotation_write(i, n, st, resp[i]), resp)

append_to_rdms_orbital_rotation(n, ov, r1, r2, resp) ==
    orbital_rotation_loop(0, n, orbital_rotation_alloc(n, ov, r1, r2), resp)

\* ---------------------------------------- append_to_rdms_OAO_basis
\* an allocation that leaves the leading block at its initial ones
OAO_basis_alloc_no_copy(n, ov, r1, r2) ==
    [overlap_new |-> np_ones2(n),
     one_rdm_new |-> np_ones4(n),
     two_rdm_new |-> np_ones6(n),
     overlap |-> ov, one_rdm |-> r1, two_rdm |-> r2]

\* lines 263-271: fresh arrays of ones, the passed arrays copied into
\* the leading block
OAO_basis_alloc(n, ov, r1, r2) ==
    [overlap_new |-> IF ov # None THEN assign_leading(np_ones2(n), ov)
                     ELSE np_ones2(n),
     one_rdm_new |-> IF r1 # None THEN assign_leading(np_ones4(n), r1)
                     ELSE np_ones4(n),
     two_rdm_new |-> IF r2 # None THEN assign_leading(np_ones6(n), r2)
                     ELSE np_ones6(n),
     overlap |-> ov, one_rdm |-> r1, two_rdm |-> r2]

\* lines 281-286: the six writes of one loop iteration, in order
OAO_basis_write(i, n, st, r) ==
    LET o1 == [st.overlap_new EXCEPT ![n - 1][i] = as_float(r.ovlp)]
        o2 == [o1 EXCEPT ![i][n - 1] = as_float(conj(r.ovlp))]
        a1 == [st.one_rdm_new EXCEPT ![n - 1][i] = as_float2(r.rdm1)]
        a2 == [a1 EXCEPT ![i][n - 1] = as_float2(conj2(r.rdm1))]
        b1 == [st.two_rdm_new EXCEPT ![n - 1][i] = as_float4(r.rdm2)]
        b2 == [b1 EXCEPT ![i][n - 1] = as_float4(conj4(r.rdm2))]
    IN  [st EXCEPT !.overlap_new = o2, !.one_rdm_new = a2, !.two_rdm_new = b2]

\* lines 273-286: for i, mol_ket in enumerate(mols)
RECURSIVE OAO_basis_loop(_, _, _, _)
OAO_basis_loop(i, n, st, resp) ==
    IF i = n THEN st
    ELSE OAO_basis_loop(i + 1, n, OAO_basis_write(i, n, st, resp[i]), resp)

append_to_rdms_OAO_basis(n, ov, r1, r2, resp) ==
    OAO_basis_loop(0, n, OAO_basis_alloc(n, ov, r1, r2), resp)

\* ------------------------------------- failures and the persisted state
(* What an append does besides filling the arrays: the calls of            *)
(* converge_dmrg_fun, the files and wavefunction tags it writes and loads, *)
(* and the pairs it evaluates, in program order.  An exception ends the    *)
(* call: no statement after the raising one runs.  The persisted state is  *)
(* a function from keys to the training index whose append wrote the key.  *)
\* "{}".format(k) of a non-negative integer: its decimal digits; a key is
\* the sequence of the pieces of its name
DecimalDigits == <<"0", "1", "2", "3", "4", "5", "6", "7", "8", "9">>

RECURSIVE format(_)
format(k) ==
    IF k < 10 THEN <<DecimalDigits[k + 1]>>
    ELSE format(k \div 10) \o <<DecimalDigits[(k % 10) + 1]>>

\* "MPS_{}".format(n)
MPS(n) == <<"MPS_">> \o format(n)

\* "MPS_{}_{}".format(n, i)
MPS_of(n, i) == <<"MPS_">> \o format(n) \o <<"_">> \o format(i)

\* "basis_{}.npy".format(n)
basis_file(n) == <<"basis_">> \o format(n) \o <<".npy">>

\* tag="new"
scratch_tag == <<"new">>

Event(op, key, val) == [op |-> op, key |-> key, val |-> val]

\* the state of a call under way
Started(files) == [disk |-> files, log |-> <<>>, raised |-> "none", calls |-> 0]

put(files, key, val) ==
    [k \in DOMAIN files \cup {key} |-> IF k = key THEN val ELSE files[k]]

\* a call of the solver that swallows a failure and goes on
converge_dmrg_fun_swallowed(st, tag, owner, fail) ==
    IF st.raised # "none" THEN st
    ELSE IF st.calls + 1 = fail
    THEN [st EXCEPT !.log = Append(@, Event("solve", tag, "failed")),
                    !.calls = @ + 1]
    ELSE [st EXCEPT !.disk = put(@, tag, owner),
                    !.log = Append(@, Event("solve", tag, "converged")),
                    !.calls = @ + 1]

\* converge_dmrg_fun(h1, h2, nelec, tag): the wavefunction is persisted under
\* the tag, or the solver raises; the fail-th call of an append is the one
\* that raises (0: none)
converge_dmrg_fun(st, tag, owner, fail) ==
    IF st.raised # "none" THEN st
    ELSE IF st.calls + 1 = fail
    THEN [st EXCEPT !.log = Append(@, Event("solve", tag, "failed")),
                    !.calls = @ + 1,
                    !.raised = "solver"]
    ELSE [st EXCEPT !.disk = put(@, tag, owner),
                    !.log = Append(@, Event("solve", tag, "converged")),
                    !.calls = @ + 1]

\* a save under one fixed file name, whatever the index
np_save_fixed_name(st, key, owner) ==
    IF st.raised # "none" THEN st
    ELSE [st EXCEPT !.disk = put(@, basis_file(0), owner),
                    !.log = Append(@, Event("save", basis_file(0), owner))]

\* np.save("basis_{}.npy".format(n), basis)
np_save(st, key, owner) ==
    IF st.raised # "none" THEN st
    ELSE [st EXCEPT !.disk = put(@, key, owner),
                    !.log = Append(@, Event("save", key, owner))]

\* mps_solver.load_mps(tag), np.load(file): what was persisted under the key;
\* a key that was never written raises
load(st, key) ==
    IF st.raised # "none" THEN st
    ELSE IF key \notin DOMAIN st.disk
    THEN [st EXCEPT !.log = Append(@, Event("load", key, "missing")),
                    !.raised = "FileNotFoundError"]
    ELSE [st EXCEPT !.log = Append(@, Event("load", key, st.disk[key]))]

\* converge_orbital_rotation_mps(ket, orbital_rotation, tag="new", ...)
converge_orbital_rotation_mps(st, owner) ==
    IF st.raised # "none" THEN st
    ELSE [st EXCEPT !.disk = put(@, scratch_tag, owner),
                    !.log = Append(@, Event("rotate", scratch_tag, owner))]

\* the overlap and the t-RDMs of the pair (newest state, state i)
evaluate_pair(st, i) ==
    IF st.raised # "none" THEN st
    ELSE [st EXCEPT !.log = Append(@, Event("pair", <<"pair">> \o format(i), i))]

\* lines 79-117 of append_to_rdms_rerun
RECURSIVE rerun_flow_loop(_, _, _, _)
rerun_flow_loop(i, n, st, fail) ==
    IF i = n THEN st
    ELSE LET s1 == load(st, MPS(i))
             s2 == load(s1, basis_file(i))
             s3 == IF i # n - 1
                   THEN converge_dmrg_fun(s2, MPS_of(n - 1, i), n - 1, fail)
                   ELSE s2
         IN  rerun_flow_loop(i + 1, n, evaluate_pair(s3, i), fail)

\* lines 61-117 of append_to_rdms_rerun
rerun_flow(n, files, fail) ==
    LET s1 == converge_dmrg_fun(Started(files), MPS(n - 1), n - 1, fail)
        s2 == np_save(s1, basis_file(n - 1), n - 1)
    IN  rerun_flow_loop(0, n, s2, fail)

\* lines 177-225 of append_to_rdms_orbital_rotation
RECURSIVE orbital_rotation_flow_loop(_, _, _)
orbital_rotation_flow_loop(i, n, st) ==
    IF i = n THEN st
    ELSE LET s1 == load(st, MPS(i))
             s2 == load(s1, basis_file(i))
             s3 == IF i # n - 1
                   THEN converge_orbital_rotation_mps(s2, n - 1)
                   ELSE s2
         IN  orbital_rotation_flow_loop(i + 1, n, evaluate_pair(s3, i))

\* lines 164-225 of append_to_rdms_orbital_rotation
orbital_rotation_flow(n, files, fail) ==
    LET s1 == converge_dmrg_fun(Started(files), MPS(n - 1), n - 1, fail)
        s2 == load(s1, MPS(n - 1))
        s3 == np_save(s2, basis_file(n - 1), n - 1)
    IN  orbital_rotation_flow_loop(0, n, s3)

\* lines 273-286 of append_to_rdms_OAO_basis
RECURSIVE OAO_basis_flow_loop(_, _, _)
OAO_basis_flow_loop(i, n, st) ==
    IF i = n THEN st
    ELSE OAO_basis_flow_loop(i + 1, n, evaluate_pair(load(st, MPS(i)), i))

\* lines 261-286 of append_to_rdms_OAO_basis
OAO_basis_flow(n, files, fail) ==
    OAO_basis_flow_loop(0, n,
        converge_dmrg_fun(Started(files), MPS(n - 1), n - 1, fail))

\* ===================================================== the eigenproblem solver
(* Energies and Hamiltonian entries are carried as twice their value, so   *)
(* that the factor 0.5 of the two-body term and the diag_multiplier 0.5    *)
(* stay within the integers: two_body_* and hamiltonian return 2H.         *)

\* ------------------------------------------------------ arithmetic helpers
Min(a, b) == IF a <= b THEN a ELSE b
Max(a, b) == IF a >= b THEN a ELSE b
Abs(x) == IF x < 0 THEN 0 - x ELSE x

\* f[0] + ... + f[n-1]
RECURSIVE SumTo(_, _)
SumTo(f, n) == IF n = 0 THEN 0 ELSE f[n - 1] + SumTo(f, n - 1)

\* np.tensordot(A, h, axes=2) and axes=4 on one training pair's block
tensordot2(A, h) ==
    SumTo([p \in Orb |-> SumTo([q \in Orb |-> A[p][q] * h[p][q]], Norb)], Norb)
tensordot4(A, h) ==
    SumTo([p \in Orb |-> SumTo([q \in Orb |-> tensordot2(A[p][q], h[p][q])],
                               Norb)], Norb)

\* x.dot(y) of two vectors of length len
dot(x, y, len) == SumTo([m \in 0..(len - 1) |-> x[m] * y[m]], len)

\* the number of entries of the lower triangle of an n x n matrix
TriLen(n) == (n * (n + 1)) \div 2

\* np.tril_indices(n): the (row, column) pairs with column <= row, row by row
tril_indices(n) ==
    [k \in 0..(TriLen(n) - 1) |->
        LET r == CHOOSE r \in 0..(n - 1) : TriLen(r) <= k /\ k < TriLen(r + 1)
        IN  <<r, k - TriLen(r)>>]

\* ------------------------------------------------- what the caller passes
Samples == 1..NumSamples
Ranks == 1..7

\* symmetric one-electron integrals, two-electron integrals with the 8-fold
\* symmetry
h1_of(s) == [p \in Orb |-> [q \in Orb |-> s * (p + q) - p * q + 1]]
h2_of(s) ==
    [p \in Orb |-> [q \in Orb |-> [r \in Orb |-> [t \in Orb |->
        (p + q + s) * (r + t + s) + p * q * r * t]]]]

\* the overlap of orthonormal training states
S_of(n) == [a \in Trn(n) |-> [b \in Trn(n) |-> IF a = b THEN 1 ELSE 0]]

\* t-RDMs as the accumulators leave them: the block of (a, b) equals the
\* block of (b, a); the two-body blocks are symmetric under the exchange of
\* the index pairs (p, q) and (r, t)
one_RDM_of(s, n) ==
    [a \in Trn(n) |-> [b \in Trn(n) |-> [p \in Orb |-> [q \in Orb |->
        s * p + q + Min(a, b) + 2 * Max(a, b)]]]]
two_RDM_of(s, n) ==
    [a \in Trn(n) |-> [b \in Trn(n) |->
       [p \in Orb |-> [q \in Orb |-> [r \in Orb |-> [t \in Orb |->
          (s + p + 2 * q) * (s + r + 2 * t) + Min(a, b) + 3 * Max(a, b)]]]]]]

\* data symmetry: the blocks of the lower triangle of (a, b), row by row
pack_data(T, n) ==
    LET tril == tril_indices(n)
    IN  [k \in 0..(TriLen(n) - 1) |-> T[tril[k][1]][tril[k][2]]]

\* electron exchange symmetry: a block reshaped to (Norb^2, Norb^2), its
\* lower triangle flattened
pack_exchange(B) ==
    LET tril == tril_indices(Norb * Norb)
    IN  [m \in 0..(TriLen(Norb * Norb) - 1) |->
            LET u == tril[m][1]
                v == tril[m][2]
            IN  B[u \div Norb][u % Norb][v \div Norb][v % Norb]]

\* the same logical two-body t-RDM in the layout of the given rank
two_RDM_in(T, n, rank) ==
    CASE rank = 6 -> T
      [] rank = 5 -> pack_data(T, n)
      [] rank = 3 -> [a \in Trn(n) |-> [b \in Trn(n) |-> pack_exchange(T[a][b])]]
      [] rank = 2 -> [k \in 0..(TriLen(n) - 1) |->
                         pack_exchange(pack_data(T, n)[k])]
      [] OTHER -> None

\* compress_electron_exchange_symmetry(h2, diag_multiplier): the lower
\* triangle of h2 reshaped to (Norb^2, Norb^2), its diagonal scaled.  The
\* multiplier is passed doubled and the result is twice the packed vector.
compress_electron_exchange_symmetry(h2, twice_diag_multiplier) ==
    LET tril == tril_indices(Norb * Norb)
    IN  [m \in 0..(TriLen(Norb * Norb) - 1) |->
            LET u == tril[m][1]
                v == tril[m][2]
            IN  (IF u = v THEN twice_diag_multiplier ELSE 2)
                   * h2[u \div Norb][u % Norb][v \div Norb][v % Norb]]

\* --------------------------------------------- the effective Hamiltonian
\* line 38: H = np.tensordot(one_RDM, h1, axes=2)                     (as 2H)
one_body(one_RDM, h1, n) ==
    [a \in Trn(n) |-> [b \in Trn(n) |-> 2 * tensordot2(one_RDM[a][b], h1)]]

\* the 6-index term without its factor 0.5
two_body_full_no_half(two_RDM, h2, n) ==
    [a \in Trn(n) |-> [b \in Trn(n) |-> 2 * tensordot4(two_RDM[a][b], h2)]]

\* line 43: 0.5 * np.tensordot(two_RDM, h2, axes=4)                   (as 2H)
two_body_full(two_RDM, h2, n) ==
    [a \in Trn(n) |-> [b \in Trn(n) |-> tensordot4(two_RDM[a][b], h2)]]

\* the 5-index term without its factor 0.5
two_body_data_no_half(two_RDM, h2, n) ==
    [k \in 0..(TriLen(n) - 1) |-> 2 * tensordot4(two_RDM[k], h2)]

\* line 47: H_twobody = 0.5 * np.tensordot(two_RDM, h2, axes=4)       (as 2H)
two_body_data(two_RDM, h2, n) ==
    [k \in 0..(TriLen(n) - 1) |-> tensordot4(two_RDM[k], h2)]

\* lines 55-57: two_RDM.dot(h2_compressed)                            (as 2H)
two_body_exchange(two_RDM, h2, n) ==
    LET h2_compressed == compress_electron_exchange_symmetry(h2, 1)
    IN  [a \in Trn(n) |-> [b \in Trn(n) |->
            dot(two_RDM[a][b], h2_compressed, TriLen(Norb * Norb))]]

\* lines 62-64: H_twobody = two_RDM.dot(h2_compressed)                (as 2H)
two_body_both(two_RDM, h2, n) ==
    LET h2_compressed == compress_electron_exchange_symmetry(h2, 1)
    IN  [k \in 0..(TriLen(n) - 1) |->
            dot(two_RDM[k], h2_compressed, TriLen(Norb * Norb))]

\* H += X for two full matrices
add_full(H, X, n) == [a \in Trn(n) |-> [b \in Trn(n) |-> H[a][b] + X[a][b]]]

\* the same over np.triu_indices: the pairs with column >= row, row by row
triu_indices(n) ==
    [k \in 0..(TriLen(n) - 1) |->
        LET r == CHOOSE r \in 0..(n - 1) :
                    TriLen(n) - TriLen(n - r) <= k
                      /\ k < TriLen(n) - TriLen(n - r - 1)
        IN  <<r, r + k - (TriLen(n) - TriLen(n - r))>>]

\* the packed term added over the upper triangle
RECURSIVE add_triu(_, _, _, _)
add_triu(H, H_twobody, n, k) ==
    IF k = TriLen(n) THEN H
    ELSE LET ab == triu_indices(n)[k]
         IN  add_triu([H EXCEPT ![ab[1]][ab[2]] = @ + H_twobody[k]],
                      H_twobody, n, k + 1)

\* lines 48, 65: H[np.tril_indices(H.shape[0])] += H_twobody, entry by entry
RECURSIVE add_tril(_, _, _, _)
add_tril(H, H_twobody, n, k) ==
    IF k = TriLen(n) THEN H
    ELSE LET ab == tril_indices(n)[k]
         IN  add_tril([H EXCEPT ![ab[1]][ab[2]] = @ + H_twobody[k]],
                      H_twobody, n, k + 1)

\* lines 51, 68: H[np.triu_indices(n)] = H.T.conj()[np.triu_indices(n)];
\* H is a real array, so the conjugate of an entry is the entry.
mirror_upper(H, n) ==
    [a \in Trn(n) |-> [b \in Trn(n) |-> IF a <= b THEN H[b][a] ELSE H[a][b]]]

\* a dispatch whose last branch lets an unknown rank through
layout_of_no_assert(rank) ==
    CASE rank = 6 -> "full"
      [] rank = 5 -> "data"
      [] rank = 3 -> "exchange"
      [] rank = 2 -> "both"
      [] OTHER -> "none"

\* lines 41, 45, 53, 59, 70: the branch taken for len(two_RDM.shape)
layout_of(rank) ==
    CASE rank = 6 -> "full"
      [] rank = 5 -> "data"
      [] rank = 3 -> "exchange"
      [] rank = 2 -> "both"
      [] OTHER -> "assert False"

\* lines 38-71 (and 120-153): the Hamiltonian, or the failed assertion
hamiltonian(h1, h2, one_RDM, two_RDM, n, rank, herm) ==
    LET H == one_body(one_RDM, h1, n)
        layout == layout_of(rank)
        packed == IF layout = "data"
                  THEN add_tril(H, two_body_data(two_RDM, h2, n), n, 0)
                  ELSE add_tril(H, two_body_both(two_RDM, h2, n), n, 0)
    IN  CASE layout = "full" ->
               [ok |-> TRUE, H |-> add_full(H, two_body_full(two_RDM, h2, n), n)]
          [] layout = "exchange" ->
               [ok |-> TRUE,
                H |-> add_full(H, two_body_exchange(two_RDM, h2, n), n)]
          [] layout \in {"data", "both"} ->
               [ok |-> TRUE,
                H |-> IF ~herm THEN mirror_upper(packed, n) ELSE packed]
          [] layout = "assert False" -> [ok |-> FALSE, H |-> None]
          [] OTHER -> [ok |-> TRUE, H |-> H]

\* ------------------------------------------------- scipy.linalg.eigh, eig
\* the lower triangle of a matrix
lower(M, n) == [a \in Trn(n) |-> [b \in 0..a |-> M[a][b]]]

\* lines 75, 78: the problem as the library sees it.  eigh (lower=True, its
\* default) reads the lower triangles of H and S; eig reads every entry.
solver_reads(H, S, n, herm) ==
    IF herm THEN [herm |-> TRUE, H |-> lower(H, n), S |-> lower(S, n)]
    ELSE [herm |-> FALSE, H |-> H, S |-> S]

\* eigenvalues eig may return: real, nearly real, with an imaginary part of
\* exactly 1e-5, and clearly complex
EigValues ==
    {[re |-> 1, im |-> 0], [re |-> 2, im |-> ImagTol - 1],
     [re |-> 0, im |-> ImagTol], [re |-> 0, im |-> 0 - (ImagTol + 1)]}

\* eigenvalues eigh may return: real, and it returns them in ascending order
EighValues == {[re |-> 1, im |-> 0], [re |-> 2, im |-> 0]}

\* an eigenvector matrix with pairwise different columns
SomeVecs(n) ==
    [r \in Trn(n) |-> [c \in Trn(n) |-> (r + 1) * (c + 1) + IF r = c THEN 1 ELSE 0]]

(* What the library may answer to a problem.  A 1 x 1 problem with         *)
(* S = [[1]] is solved exactly: the eigenvalue is H[0,0], the eigenvector  *)
(* [1] or [-1].  For larger problems the answer is any spectrum of the     *)
(* kind the routine returns.                                               *)
eig_answers(key, n) ==
    IF n = 1
    THEN {[vals |-> [k \in Trn(1) |-> [re |-> key.H[0][0], im |-> 0]],
           vecs |-> [r \in Trn(1) |-> [c \in Trn(1) |-> sgn]]] : sgn \in {1, -1}}
    ELSE IF key.herm
    THEN {[vals |-> v, vecs |-> SomeVecs(n)] :
             v \in {w \in [Trn(n) -> EighValues] :
                      \A i \in Trn(n), j \in Trn(n) : i <= j => w[i].re <= w[j].re}}
    ELSE {[vals |-> v, vecs |-> SomeVecs(n)] : v \in [Trn(n) -> EigValues]}

\* ------------------------------------------ choosing among the eigenpairs
\* lines 81, 163: valid_vals = abs(vals.imag) < 1.0e-5
valid_vals(vals, n) == [k \in Trn(n) |-> Abs(vals[k].im) < ImagTol]

\* x[valid_vals]: the indices the boolean mask keeps, in order
mask_indices(valid, n) ==
    SelectSeq([k \in 1..n |-> k - 1], LAMBDA k : valid[k])

\* np.argmin: the first position of the smallest entry of a sequence
argmin(xs) ==
    CHOOSE j \in 1..Len(xs) :
        /\ \A i \in 1..Len(xs) : xs[j] <= xs[i]
        /\ \A i \in 1..(j - 1) : xs[i] > xs[j]

\* a selection that applies the filtered position to the unfiltered columns
select_ground_state_unfiltered_vecs(ans, n) ==
    LET kept == mask_indices(valid_vals(ans.vals, n), n)
        reals == [k \in 1..Len(kept) |-> ans.vals[kept[k]].re]
    IN  IF Len(kept) = 0
        THEN [status |-> "ValueError", en |-> None, vec |-> None]
        ELSE [status |-> "ok",
              en |-> reals[argmin(reals)],
              vec |-> [r \in Trn(n) |-> ans.vecs[r][argmin(reals) - 1]]]

\* lines 80-90 of approximate_ground_state
select_ground_state(ans, n) ==
    LET kept == mask_indices(valid_vals(ans.vals, n), n)
        reals == [k \in 1..Len(kept) |-> ans.vals[kept[k]].re]
    IN  IF Len(kept) = 0
        THEN [status |-> "ValueError", en |-> None, vec |-> None]
        ELSE [status |-> "ok",
              en |-> reals[argmin(reals)],
              vec |-> [r \in Trn(n) |-> ans.vecs[r][kept[argmin(reals)]]]]

\* np.argsort: the orders that sort a sequence ascending (ties in any order)
argsort(xs) ==
    {o \in [1..Len(xs) -> 1..Len(xs)] :
        /\ \A i \in 1..Len(xs), j \in 1..Len(xs) : i # j => o[i] # o[j]
        /\ \A i \in 1..Len(xs), j \in 1..Len(xs) : i <= j => xs[o[i]] <= xs[o[j]]}

\* a selection that takes the roots from the wrong end of the order
select_multistate_descending(ans, n, nroots, order) ==
    LET kept == mask_indices(valid_vals(ans.vals, n), n)
        L == Len(kept)
    IN  IF ~(L >= nroots)
        THEN [status |-> "AssertionError", en |-> None, vec |-> None]
        ELSE [status |-> "ok",
              en |-> [r \in 1..nroots |-> ans.vals[kept[order[L + 1 - r]]].re],
              vec |-> [r \in 1..nroots |->
                         [x \in Trn(n) |-> ans.vecs[x][kept[order[L + 1 - r]]]]]]

\* a selection whose assertion lets one missing eigenvalue through; the
\* slice [:nroots] then returns the roots there are
select_multistate_lenient(ans, n, nroots, order) ==
    LET kept == mask_indices(valid_vals(ans.vals, n), n)
        found == Min(nroots, Len(kept))
    IN  IF ~(Len(kept) >= nroots - 1)
        THEN [status |-> "AssertionError", en |-> None, vec |-> None]
        ELSE [status |-> "ok",
              en |-> [r \in 1..found |-> ans.vals[kept[order[r]]].re],
              vec |-> [r \in 1..found |->
                         [x \in Trn(n) |-> ans.vecs[x][kept[order[r]]]]]]

\* lines 162-175 of approximate_multistate; order is what argsort returned
select_multistate(ans, n, nroots, order) ==
    LET kept == mask_indices(valid_vals(ans.vals, n), n)
    IN  IF ~(Len(kept) >= nroots)
        THEN [status |-> "AssertionError", en |-> None, vec |-> None]
        ELSE [status |-> "ok",
              en |-> [r \in 1..nroots |-> ans.vals[kept[order[r]]].re],
              vec |-> [r \in 1..nroots |->
                         [x \in Trn(n) |-> ans.vecs[x][kept[order[r]]]]]]

\* the orders argsort may return for an answer
orders_of(ans, n) ==
    LET kept == mask_indices(valid_vals(ans.vals, n), n)
    IN  argsort([k \in 1..Len(kept) |-> ans.vals[kept[k]].re])

\* ------------------------------------------------ the accumulator's steps
(* The driver appends one geometry and passes the arrays the previous     *)
(* append returned (None on the first call).  sSelf and sPair choose what *)
(* the solver returns for the newest state against itself and against the *)
(* earlier states.                                                        *)
Responses(n, sSelf, sPair) ==
    [i \in 0..(n - 1) |-> IF i = n - 1 THEN SelfResponse(sSelf)
                          ELSE PairResponse(sPair, i)]

\* the call returns the new arrays to the driver, which keeps them
Returned(fn, out, resp, flow) ==
    /\ nmols' = nmols + 1
    /\ overlap' = out.overlap_new
    /\ one_rdm' = out.one_rdm_new
    /\ two_rdm' = out.two_rdm_new
    /\ in_overlap' = overlap
    /\ in_one_rdm' = one_rdm
    /\ in_two_rdm' = two_rdm
    /\ arg_overlap' = out.overlap
    /\ arg_one_rdm' = out.one_rdm
    /\ arg_two_rdm' = out.two_rdm
    /\ called' = fn
    /\ solved' = resp
    /\ self_ovlp' = Append(self_ovlp, resp[nmols].ovlp)
    /\ last' = [fn |-> fn, raised |-> "none", log |-> flow.log]
    /\ disk' = flow.disk
    /\ UNCHANGED <<solveVars, gradVars, loewdinVars, mpiVars,
                   rerunMpiVars>>

\* the call raises: nothing is returned, the driver keeps what it had; what
\* was persisted before the exception stays persisted
Raised(fn, flow) ==
    /\ last' = [fn |-> fn, raised |-> flow.raised, log |-> flow.log]
    /\ disk' = flow.disk
    /\ UNCHANGED <<nmols, overlap, one_rdm, two_rdm, in_overlap, in_one_rdm,
                   in_two_rdm, arg_overlap, arg_one_rdm, arg_two_rdm, called,
                   solved, self_ovlp, solveVars, gradVars, loewdinVars,
                   mpiVars,
                   rerunMpiVars>>

\* the number of converge_dmrg_fun calls an append of n geometries makes
solver_calls(fn, n) == IF fn = "rerun" THEN n ELSE 1

AppendRerun ==
    /\ nmols < MaxMols
    /\ \E sSelf \in 1..NumResp, sPair \in 1..NumResp,
          fail \in 0..solver_calls("rerun", nmols + 1) :
         LET resp == Responses(nmols + 1, sSelf, sPair)
             flow == rerun_flow(nmols + 1, disk, fail)
         IN  IF flow.raised # "none" THEN Raised("rerun", flow)
             ELSE Returned("rerun",
                           append_to_rdms_rerun(nmols + 1, overlap, one_rdm,
                                                two_rdm, resp),
                           resp, flow)

AppendOrbitalRotation ==
    /\ nmols < MaxMols
    /\ \E sSelf \in 1..NumResp, sPair \in 1..NumResp,
          fail \in 0..solver_calls("orbital_rotation", nmols + 1) :
         LET resp == Responses(nmols + 1, sSelf, sPair)
             flow == orbital_rotation_flow(nmols + 1, disk, fail)
         IN  IF flow.raised # "none" THEN Raised("orbital_rotation", flow)
             ELSE Returned("orbital_rotation",
                           append_to_rdms_orbital_rotation(nmols + 1, overlap,
                                                           one_rdm, two_rdm,
                                                           resp),
                           resp, flow)

AppendOAOBasis ==
    /\ nmols < MaxMols
    /\ \E sSelf \in 1..NumResp, sPair \in 1..NumResp,
          fail \in 0..solver_calls("OAO_basis", nmols + 1) :
         LET resp == Responses(nmols + 1, sSelf, sPair)
             flow == OAO_basis_flow(nmols + 1, disk, fail)
         IN  IF flow.raised # "none" THEN Raised("OAO_basis", flow)
             ELSE Returned("OAO_basis",
                           append_to_rdms_OAO_basis(nmols + 1, overlap, one_rdm,
                                                    two_rdm, resp),
                           resp, flow)

\* no append has run
AccIdle ==
    /\ nmols = 0
    /\ overlap = None
    /\ one_rdm = None
    /\ two_rdm = None
    /\ in_overlap = None
    /\ in_one_rdm = None
    /\ in_two_rdm = None
    /\ arg_overlap = None
    /\ arg_one_rdm = None
    /\ arg_two_rdm = None
    /\ called = "none"
    /\ solved = None
    /\ self_ovlp = <<>>
    /\ last = [fn |-> "none", raised |-> "none", log |-> <<>>]
    /\ disk = <<>>

\* no call of the eigenproblem solver is under study
SolveIdle ==
    /\ sample = 0
    /\ n_trn = 0
    /\ hermitian = TRUE
    /\ memo = <<>>
    /\ res = None
    /\ ref = None

\* no call of get_energy_with_grad is under study
GradIdle ==
    /\ mol = 0
    /\ grad = None

\* no call of loewdin_trafo_grad is under study
LoewdinIdle ==
    /\ ovlp_vals = None
    /\ v_sample = 0
    /\ Z = None

\* no parallel run is under study
MpiIdle ==
    /\ job = None
    /\ world = None
    /\ wire = <<>>

\* no parallel run of append_to_rdms_rerun is under study
RerunMpiIdle ==
    /\ ranks = None
    /\ basis_files = None
    /\ reads = {}

InitAcc ==
    /\ AccIdle
    /\ SolveIdle
    /\ GradIdle
    /\ LoewdinIdle
    /\ MpiIdle
    /\ RerunMpiIdle

NextAcc ==
    \/ AppendRerun
    \/ AppendOrbitalRotation
    \/ AppendOAOBasis

SpecAcc == InitAcc /\ [][NextAcc]_vars

\* ------------------------------------------------------ the solver's steps
(* The caller holds one set of inputs (sample, n_trn, hermitian) and calls *)
(* the two functions with the two-body t-RDM in a layout of any rank.      *)
(* scipy is a function: posed the same problem again, it answers the same. *)
scipy_linalg(key, n) ==
    IF key \in DOMAIN memo THEN {memo[key]} ELSE eig_answers(key, n)

remember(key, ans) ==
    IF key \in DOMAIN memo THEN memo ELSE memo @@ (key :> ans)

\* the record of a call that stopped at the rank dispatch
Aborted(fn, rank, nroots) ==
    [fn |-> fn, rank |-> rank, nroots |-> nroots, status |-> "AssertionError",
     solved |-> FALSE, H |-> None, key |-> None, ans |-> None,
     en |-> None, vec |-> None]

\* the record of a call that reached the eigensolver
Finished(fn, rank, nroots, H, key, ans, out) ==
    [fn |-> fn, rank |-> rank, nroots |-> nroots, status |-> out.status,
     solved |-> TRUE, H |-> H, key |-> key, ans |-> ans,
     en |-> out.en, vec |-> out.vec]

\* lines 38-71 on every input the caller may hold: hamiltonian is a function
\* of its arguments, tabulated here so that it is evaluated once per input
built_hamiltonians ==
    [s \in Samples |-> [n \in 1..MaxTrn |-> [herm \in BOOLEAN |->
        [rank \in Ranks |->
            hamiltonian(h1_of(s), h2_of(s), one_RDM_of(s, n),
                        two_RDM_in(two_RDM_of(s, n), n, rank),
                        n, rank, herm)]]]]

\* lines 38-71: the Hamiltonian the caller's inputs give in a layout
BuiltH(rank) == built_hamiltonians[sample][n_trn][hermitian][rank]

\* approximate_ground_state(h1, h2, one_RDM, two_RDM, S, hermitian)
CallGroundState ==
    /\ \E rank \in Ranks :
         LET hb == BuiltH(rank)
         IN  IF ~hb.ok
             THEN /\ res' = Aborted("ground_state", rank, 1)
                  /\ UNCHANGED <<memo, ref>>
             ELSE LET key == solver_reads(hb.H, S_of(n_trn), n_trn, hermitian)
                  IN  \E ans \in scipy_linalg(key, n_trn) :
                        LET r == Finished("ground_state", rank, 1, hb.H, key,
                                          ans, select_ground_state(ans, n_trn))
                        IN  /\ res' = r
                            /\ memo' = remember(key, ans)
                            /\ ref' = IF rank = 6 THEN r ELSE ref
    /\ UNCHANGED <<sample, n_trn, hermitian, accVars, gradVars, loewdinVars,
                   mpiVars,
                   rerunMpiVars>>

\* approximate_multistate(h1, h2, one_RDM, two_RDM, S, nroots, hermitian)
CallMultistate ==
    /\ \E rank \in Ranks, nroots \in 1..(n_trn + 1) :
         LET hb == BuiltH(rank)
         IN  IF ~hb.ok
             THEN /\ res' = Aborted("multistate", rank, nroots)
                  /\ UNCHANGED memo
             ELSE LET key == solver_reads(hb.H, S_of(n_trn), n_trn, hermitian)
                  IN  \E ans \in scipy_linalg(key, n_trn) :
                        \E order \in orders_of(ans, n_trn) :
                          /\ res' = Finished("multistate", rank, nroots, hb.H,
                                             key, ans,
                                             select_multistate(ans, n_trn,
                                                               nroots, order))
                          /\ memo' = remember(key, ans)
    /\ UNCHANGED <<ref, sample, n_trn, hermitian, accVars, gradVars,
                   loewdinVars, mpiVars,
                   rerunMpiVars>>

NoCall ==
    [fn |-> "none", rank |-> 0, nroots |-> 0, status |-> "none",
     solved |-> FALSE, H |-> None, key |-> None, ans |-> None,
     en |-> None, vec |-> None]

InitSolve ==
    /\ AccIdle
    /\ GradIdle
    /\ LoewdinIdle
    /\ MpiIdle
    /\ RerunMpiIdle
    /\ sample \in Samples
    /\ n_trn \in 1..MaxTrn
    /\ hermitian \in BOOLEAN
    /\ memo = <<>>
    /\ res = NoCall
    /\ ref = NoCall

NextSolve ==
    \/ CallGroundState
    \/ CallMultistate

SpecSolve == InitSolve /\ [][NextSolve]_vars

\* ===================================================== get_energy_with_grad
(* The energy and the gradient are carried as twice their value, like the  *)
(* Hamiltonian.                                                            *)
Mols == 1..NumMols
Atoms == 0..(Natm - 1)
Xyz == 0..2

\* what pyscf supplies for a molecule: the integrals in the Loewdin basis,
\* their nuclear derivatives, the nuclear repulsion and its gradient
mol_h1(m) == h1_of(m)
mol_h2(m) == h2_of(m)
mol_h1_jac(m) ==
    [p \in Orb |-> [q \in Orb |-> [A \in Atoms |-> [x \in Xyz |->
        (p + q + 1) * (A + 1) + x - m]]]]
mol_h2_jac(m) ==
    [p \in Orb |-> [q \in Orb |-> [r \in Orb |-> [t \in Orb |->
        [A \in Atoms |-> [x \in Xyz |->
            (p + q + 1) * (r + t + 1) * (A + 1) + x + m]]]]]]
mol_energy_nuc(m) == m + 1
mol_grad_nuc(m) == [A \in Atoms |-> [x \in Xyz |-> A - x + m]]

\* line 232: np.einsum("i,ijkl,j->kl", vec, one_RDM, vec)
one_rdm_predicted(vec, one_RDM, n) ==
    [k \in Orb |-> [l \in Orb |->
        SumTo([i \in Trn(n) |->
            SumTo([j \in Trn(n) |-> vec[i] * one_RDM[i][j][k][l] * vec[j]], n)],
              n)]]

\* line 233: np.einsum("i,ijklmn,j->kl", vec, two_RDM, vec); the indices m
\* and n are not in the output, so they are summed over
two_rdm_predicted(vec, two_RDM, n) ==
    [k \in Orb |-> [l \in Orb |->
        SumTo([i \in Trn(n) |->
            SumTo([j \in Trn(n) |->
                vec[i] * tensordot2(two_RDM[i][j][k][l], np_ones2(Norb))
                       * vec[j]], n)], n)]]

(* lines 235-239: expand_dims(P, (-1, -2)) has shape (Norb, Norb, 1, 1);   *)
(* against h2_jac of shape (Norb, Norb, Norb, Norb, Natm, 3) it broadcasts *)
(* over the first two orbital indices, so P multiplies the third and       *)
(* fourth, and the sum runs over all four.                                 *)
jac_H(P1, P2, h1_jac, h2_jac) ==
    [A \in Atoms |-> [x \in Xyz |->
        2 * SumTo([k \in Orb |->
                SumTo([l \in Orb |-> P1[k][l] * h1_jac[k][l][A][x]], Norb)],
                  Norb)
        + SumTo([p \in Orb |-> SumTo([q \in Orb |->
              SumTo([k \in Orb |-> SumTo([l \in Orb |->
                  P2[k][l] * h2_jac[p][q][k][l][A][x]], Norb)], Norb)],
                                     Norb)], Norb)]]

\* lines 241-244: the returned pair
energy_with_grad(m, out, one_RDM, two_RDM, n) ==
    IF out.status # "ok"
    THEN [status |-> out.status, energy |-> None, gradient |-> None]
    ELSE LET jac == jac_H(one_rdm_predicted(out.vec, one_RDM, n),
                          two_rdm_predicted(out.vec, two_RDM, n),
                          mol_h1_jac(m), mol_h2_jac(m))
         IN  [status |-> "ok",
              energy |-> out.en + 2 * mol_energy_nuc(m),
              gradient |-> [A \in Atoms |-> [x \in Xyz |->
                              jac[A][x] + 2 * mol_grad_nuc(m)[A][x]]]]

\* get_energy_with_grad(mol, one_RDM, two_RDM, S, hermitian)
GetEnergyWithGrad ==
    /\ LET one_RDM == one_RDM_of(sample, n_trn)
           two_RDM == two_RDM_of(sample, n_trn)
           hb == hamiltonian(mol_h1(mol), mol_h2(mol), one_RDM, two_RDM,
                             n_trn, 6, hermitian)
           key == solver_reads(hb.H, S_of(n_trn), n_trn, hermitian)
       IN  \E ans \in scipy_linalg(key, n_trn) :
             LET out == select_ground_state(ans, n_trn)
             IN  /\ res' = Finished("ground_state", 6, 1, hb.H, key, ans, out)
                 /\ memo' = remember(key, ans)
                 /\ grad' = energy_with_grad(mol, out, one_RDM, two_RDM, n_trn)
    /\ UNCHANGED <<ref, sample, n_trn, hermitian, mol, accVars, loewdinVars,
                   mpiVars,
                   rerunMpiVars>>

InitGrad ==
    /\ AccIdle
    /\ LoewdinIdle
    /\ MpiIdle
    /\ RerunMpiIdle
    /\ sample \in Samples
    /\ n_trn \in 1..MaxTrn
    /\ hermitian \in BOOLEAN
    /\ mol \in Mols
    /\ memo = <<>>
    /\ res = NoCall
    /\ ref = NoCall
    /\ grad = None

NextGrad == GetEnergyWithGrad

SpecGrad == InitGrad /\ [][NextGrad]_vars




\* ======================================================= loewdin_trafo_grad
(* Eigenvalues of the overlap matrix are carried in units of 1e-6, so that *)
(* np.round(vals, decimals=5) rounds to a multiple of 10.  A quotient is   *)
(* kept as the pair of its numerator and denominator.                      *)
Ao == 0..(Norb - 1)

\* eigenvalues np.linalg.eigh may return for an overlap matrix: around the
\* rounding boundaries, exactly equal, and of order one
OverlapEigvals == {0, 4, 5, 6, 14, 15, 25, 1000000}

\* np.linalg.eigh returns the eigenvalues in ascending order
Spectra ==
    {v \in [Ao -> OverlapEigvals] : \A i, j \in Ao : i <= j => v[i] <= v[j]}

\* the projected perturbation Vji[a, b, i, j] (lines 58-60), no entry zero
Vji_of(s) ==
    [a \in Ao |-> [b \in Ao |-> [i \in Ao |-> [j \in Ao |->
        s + a + 2 * b + 3 * i + 5 * j]]]]

\* np.round(x, decimals=5): to the nearest multiple of 1e-5, halves to even
np_round5(x) ==
    LET q == x \div 10
        r == x % 10
    IN  IF r < 5 THEN 10 * q
        ELSE IF r > 5 THEN 10 * (q + 1)
        ELSE IF q % 2 = 0 THEN 10 * q ELSE 10 * (q + 1)

\* line 28
rounded_vals(vals) == [i \in Ao |-> np_round5(vals[i])]

\* line 29: np.unique
degenerate_vals(vals) == {rounded_vals(vals)[i] : i \in Ao}

\* line 36: np.argwhere(rounded_vals == val).flatten()
degenerate_ids(vals, val) == {i \in Ao : rounded_vals(vals)[i] = val}

\* lines 32, 35-54: degenerate_subspace after the loop over degenerate_vals
RECURSIVE mark_subspaces(_, _, _)
mark_subspaces(mask, vals, todo) ==
    IF todo = {} THEN mask
    ELSE LET val == CHOOSE v \in todo : \A w \in todo : v <= w
             ids == degenerate_ids(vals, val)
         IN  mark_subspaces(
                 [i \in Ao |-> [j \in Ao |->
                     IF i \in ids /\ j \in ids THEN TRUE ELSE mask[i][j]]],
                 vals, todo \ {val})

degenerate_subspace(vals) ==
    mark_subspaces([i \in Ao |-> [j \in Ao |-> FALSE]], vals,
                   degenerate_vals(vals))

\* an entry of np.zeros, and a quotient of floats
Zero == [num |-> 0, den |-> 1]
Quotient(num, den) == [num |-> num, den |-> den]

\* the coefficients without the mask: every pair is divided
Zji_unmasked(vals, Vji) ==
    [a \in Ao |-> [b \in Ao |-> [i \in Ao |-> [j \in Ao |->
        Quotient(Vji[a][b][i][j], vals[j] - vals[i])]]]]

\* lines 62-65: Zji = zeros; Zji[:, :, ~mask] = Vji[:, :, ~mask] /
\* (vals - np.expand_dims(vals, -1))[~mask]
Zji(vals, Vji) ==
    LET mask == degenerate_subspace(vals)
    IN  [a \in Ao |-> [b \in Ao |-> [i \in Ao |-> [j \in Ao |->
            IF ~mask[i][j]
            THEN Quotient(Vji[a][b][i][j], vals[j] - vals[i])
            ELSE Zero]]]]

\* loewdin_trafo_grad(overlap_mat) up to line 65
LoewdinTrafoGrad ==
    /\ Z' = Zji(ovlp_vals, Vji_of(v_sample))
    /\ UNCHANGED <<ovlp_vals, v_sample, accVars, solveVars, gradVars, mpiVars,
                   rerunMpiVars>>

InitLoewdin ==
    /\ AccIdle
    /\ SolveIdle
    /\ GradIdle
    /\ MpiIdle
    /\ RerunMpiIdle
    /\ ovlp_vals \in Spectra
    /\ v_sample \in 1..NumSamples
    /\ Z = None

NextLoewdin == LoewdinTrafoGrad

SpecLoewdin == InitLoewdin /\ [][NextLoewdin]_vars

\* ================================================== the MPI broadcasts
(* append_to_rdms_orbital_rotation with default_solver_fun on NumProcs     *)
(* processes.  Every process runs the same program on private arrays;      *)
(* process 0 is the root.  MPI.COMM_WORLD.Bcast is blocking and matched by *)
(* call order: the c-th call of a process receives what the root passed to *)
(* its c-th call, and cannot return before the root has made that call.    *)
Procs == 0..(NumProcs - 1)

\* the positions of the program
AtBasis == 0                              \* line 150
AtH1 == 1                                 \* line 17
AtH2(idx) == 2 + idx                      \* lines 21-25, idx = i * norb + j
AtSolver == 2 + Norb * Norb               \* line 27
AtFill == 3 + Norb * Norb                 \* lines 166-225
AtOverlap == 4 + Norb * Norb              \* line 227
AtOneRdm == 5 + Norb * Norb               \* line 228
AtTwoRdm(idx) == 6 + Norb * Norb + idx    \* lines 239-243
AtReturn == 6 + 2 * Norb * Norb           \* line 245
AfterReturn == 7 + 2 * Norb * Norb

\* the arrays the driver holds after n geometries (every process the same)
RECURSIVE trained(_, _)
trained(n, s) ==
    IF n = 0
    THEN [overlap_new |-> None, one_rdm_new |-> None, two_rdm_new |-> None]
    ELSE LET prev == trained(n - 1, s)
         IN  append_to_rdms_orbital_rotation(n, prev.overlap_new,
                 prev.one_rdm_new, prev.two_rdm_new, Responses(n, s, s))

\* get_integrals(mol_bra, basis) as process p computes it: a function of the
\* basis, up to the rounding of the process
get_integrals(s, basis, p) ==
    [h1 |-> [a \in Orb |-> [b \in Orb |-> h1_of(s)[a][b] + 7 * basis + p]],
     h2 |-> [a \in Orb |-> [b \in Orb |-> [c \in Orb |-> [d \in Orb |->
                h2_of(s)[a][b][c][d] + 7 * basis + p]]]]]

\* two_rdm_new[:, :, i, j, :, :]
get_slice(arr, i, j) ==
    [a \in DOMAIN arr |-> [b \in DOMAIN arr[a] |-> arr[a][b][i][j]]]

\* a copy back into the transposed pair of orbital indices
set_slice_transposed(arr, i, j, slice) ==
    [a \in DOMAIN arr |-> [b \in DOMAIN arr[a] |->
        [arr[a][b] EXCEPT ![j][i] = slice[a][b]]]]

\* np.copyto(two_rdm_new[:, :, i, j, :, :], two_rdm_slice)
set_slice(arr, i, j, slice) ==
    [a \in DOMAIN arr |-> [b \in DOMAIN arr[a] |->
        [arr[a][b] EXCEPT ![i][j] = slice[a][b]]]]

\* MPI.COMM_WORLD.Bcast(buf, root=0) called by process p
CanBcast(p) == p = 0 \/ world[p].nb < Len(wire)
Received(p, buf) == IF p = 0 THEN buf ELSE wire[world[p].nb + 1]
Sent(p, buf) == IF p = 0 THEN Append(wire, buf) ELSE wire

\* process p moves on, its private state changed to w
Step(p, w) ==
    /\ world' = [world EXCEPT ![p] = [w EXCEPT !.pc = @ + 1]]
    /\ UNCHANGED <<job, accVars, solveVars, gradVars, loewdinVars,
                   rerunMpiVars>>

\* the same after a broadcast
StepBcast(p, w, buf) ==
    /\ wire' = Sent(p, buf)
    /\ Step(p, [w EXCEPT !.nb = @ + 1])

\* lines 150-162: the basis is broadcast, the integrals are computed from it
\* and the new arrays are allocated around the old ones
BcastBasis(p) ==
    /\ world[p].pc = AtBasis
    /\ CanBcast(p)
    /\ LET basis == Received(p, world[p].basis)
           ints == get_integrals(job.s, basis, p)
           prev == trained(job.n - 1, job.s)
           new == orbital_rotation_alloc(job.n, prev.overlap_new,
                                         prev.one_rdm_new, prev.two_rdm_new)
       IN  StepBcast(p, [world[p] EXCEPT !.basis = basis,
                                         !.h1 = ints.h1, !.h2 = ints.h2,
                                         !.overlap_new = new.overlap_new,
                                         !.one_rdm_new = new.one_rdm_new,
                                         !.two_rdm_new = new.two_rdm_new],
                     world[p].basis)

\* line 17
BcastH1(p) ==
    /\ world[p].pc = AtH1
    /\ CanBcast(p)
    /\ StepBcast(p, [world[p] EXCEPT !.h1 = Received(p, world[p].h1)],
                 world[p].h1)

\* lines 23-25
BcastH2Slice(p) ==
    /\ \E i \in Orb, j \in Orb :
         /\ world[p].pc = AtH2(i * Norb + j)
         /\ CanBcast(p)
         /\ StepBcast(p, [world[p] EXCEPT
                            !.h2[i][j] = Received(p, world[p].h2[i][j])],
                      world[p].h2[i][j])

\* line 27: converge_dmrg is called with the process's h1 and h2
CallSolver(p) ==
    /\ world[p].pc = AtSolver
    /\ wire' = wire
    /\ Step(p, [world[p] EXCEPT !.solver_h1 = world[p].h1,
                                !.solver_h2 = world[p].h2])

\* lines 166-225: if rank == 0, the new row and column are computed
Fill(p) ==
    /\ world[p].pc = AtFill
    /\ wire' = wire
    /\ IF p = 0
       THEN LET st == orbital_rotation_loop(0, job.n,
                          [overlap_new |-> world[p].overlap_new,
                           one_rdm_new |-> world[p].one_rdm_new,
                           two_rdm_new |-> world[p].two_rdm_new],
                          Responses(job.n, job.s, job.s))
            IN  Step(p, [world[p] EXCEPT !.overlap_new = st.overlap_new,
                                         !.one_rdm_new = st.one_rdm_new,
                                         !.two_rdm_new = st.two_rdm_new])
       ELSE Step(p, world[p])

\* line 227
BcastOverlap(p) ==
    /\ world[p].pc = AtOverlap
    /\ CanBcast(p)
    /\ StepBcast(p, [world[p] EXCEPT
                       !.overlap_new = Received(p, world[p].overlap_new)],
                 world[p].overlap_new)

\* line 228
BcastOneRdm(p) ==
    /\ world[p].pc = AtOneRdm
    /\ CanBcast(p)
    /\ StepBcast(p, [world[p] EXCEPT
                       !.one_rdm_new = Received(p, world[p].one_rdm_new)],
                 world[p].one_rdm_new)

\* lines 241-243
BcastTwoRdmSlice(p) ==
    /\ \E i \in Orb, j \in Orb :
         /\ world[p].pc = AtTwoRdm(i * Norb + j)
         /\ CanBcast(p)
         /\ LET two_rdm_slice == get_slice(world[p].two_rdm_new, i, j)
            IN  StepBcast(p, [world[p] EXCEPT
                   !.two_rdm_new = set_slice(@, i, j,
                                             Received(p, two_rdm_slice)),
                   !.got = Append(@, <<i, j>>)],
                   two_rdm_slice)

\* line 245
Return(p) ==
    /\ world[p].pc = AtReturn
    /\ wire' = wire
    /\ Step(p, world[p])

\* a process that entered the call; the root reordered its basis (line 148)
Entered(p) ==
    [pc |-> AtBasis, nb |-> 0, basis |-> IF p = 0 THEN 1 ELSE 0,
     h1 |-> None, h2 |-> None, overlap_new |-> None, one_rdm_new |-> None,
     two_rdm_new |-> None, got |-> <<>>, solver_h1 |-> None,
     solver_h2 |-> None]

InitMPI ==
    /\ AccIdle
    /\ SolveIdle
    /\ GradIdle
    /\ LoewdinIdle
    /\ RerunMpiIdle
    /\ job \in [n : 1..MaxTrn, s : 1..NumResp]
    /\ world = [p \in Procs |-> Entered(p)]
    /\ wire = <<>>

NextMPI ==
    \E p \in Procs :
        \/ BcastBasis(p)
        \/ BcastH1(p)
        \/ BcastH2Slice(p)
        \/ CallSolver(p)
        \/ Fill(p)
        \/ BcastOverlap(p)
        \/ BcastOneRdm(p)
        \/ BcastTwoRdmSlice(p)
        \/ Return(p)

SpecMPI == InitMPI /\ [][NextMPI]_vars

\* ================================== append_to_rdms_rerun on several processes
(* The driver calls append_to_rdms_rerun for len(mols) = 1, 2, ... on every *)
(* process.  The processes meet only in MPI.COMM_WORLD.Bcast (line 57 and   *)
(* lines 17-25 of default_solver_fun); the basis files live in a directory  *)
(* all processes share, empty when the run starts.                          *)
(* The calls into the external driver (converge_dmrg, load_mps) are taken  *)
(* not to make the processes wait for each other: the broadcast is the     *)
(* only collective wait the program itself performs.                        *)

\* what this program leaves alone
elsewhere == <<accVars, solveVars, gradVars, loewdinVars, mpiVars>>

\* the Bcast calls of one default_solver_fun call: h1 and every h2[i, j]
SolverBcasts == 1 + Norb * Norb

\* process p may leave its next Bcast: the root has entered that Bcast
CanPass(p) == p = 0 \/ ranks[p].nb < ranks[0].nb

\* process p goes on at position at
Goto(p, at) ==
    /\ ranks' = [ranks EXCEPT ![p].at = at]
    /\ UNCHANGED <<basis_files, reads, elsewhere>>

\* line 57
RerunBcastBasis(p) ==
    /\ ranks[p].at = "Bcast_basis"
    /\ CanPass(p)
    /\ ranks' = [ranks EXCEPT ![p].at = "solver", ![p].k = 0, ![p].nb = @ + 1]
    /\ UNCHANGED <<basis_files, reads, elsewhere>>

\* lines 17-25, called from line 61 and from line 96
RerunSolverBcast(p) ==
    /\ ranks[p].at \in {"solver", "solver_ket"}
    /\ ranks[p].k < SolverBcasts
    /\ CanPass(p)
    /\ ranks' = [ranks EXCEPT ![p].k = @ + 1, ![p].nb = @ + 1]
    /\ UNCHANGED <<basis_files, reads, elsewhere>>

\* line 27: converge_dmrg returns, to line 61 or to line 96
RerunConverged(p) ==
    /\ ranks[p].at \in {"solver", "solver_ket"}
    /\ ranks[p].k = SolverBcasts
    /\ Goto(p, IF ranks[p].at = "solver" THEN "np_save" ELSE "pair")

\* lines 63-64: if rank == 0, np.save opens basis_{len(mols)-1}.npy
RerunSave(p) ==
    /\ ranks[p].at = "np_save"
    /\ IF p = 0
       THEN /\ ranks' = [ranks EXCEPT ![p].at = "np_save_end"]
            /\ basis_files' = [basis_files EXCEPT ![ranks[p].n - 1] = "partial"]
       ELSE /\ ranks' = [ranks EXCEPT ![p].at = "load", ![p].i = 0]
            /\ basis_files' = basis_files
    /\ UNCHANGED <<reads, elsewhere>>

\* line 64: np.save has written the file
RerunSaved(p) ==
    /\ ranks[p].at = "np_save_end"
    /\ ranks' = [ranks EXCEPT ![p].at = "load", ![p].i = 0]
    /\ basis_files' = [basis_files EXCEPT ![ranks[p].n - 1] = "written"]
    /\ UNCHANGED <<reads, elsewhere>>

\* line 81: np.load("basis_{}.npy".format(i)); a file that is not there or
\* not whole makes np.load raise
RerunLoad(p) ==
    /\ ranks[p].at = "load"
    /\ LET found == basis_files[ranks[p].i]
       IN  /\ reads' = reads \cup {[rank |-> p, n |-> ranks[p].n,
                                    i |-> ranks[p].i, found |-> found]}
           /\ ranks' = [ranks EXCEPT ![p].k = 0, ![p].at =
                           IF found # "written" THEN "raised"
                           ELSE IF ranks[p].i # ranks[p].n - 1
                                THEN "solver_ket" ELSE "pair"]
    /\ UNCHANGED <<basis_files, elsewhere>>

\* lines 102-117, and the loop of line 79
RerunPair(p) ==
    /\ ranks[p].at = "pair"
    /\ IF ranks[p].i < ranks[p].n - 1
       THEN ranks' = [ranks EXCEPT ![p].at = "load", ![p].i = @ + 1]
       ELSE ranks' = [ranks EXCEPT ![p].at = "return"]
    /\ UNCHANGED <<basis_files, reads, elsewhere>>

\* line 119, and the driver's next call with one more geometry
RerunReturn(p) ==
    /\ ranks[p].at = "return"
    /\ IF ranks[p].n < MaxMols
       THEN ranks' = [ranks EXCEPT ![p].at = "Bcast_basis", ![p].n = @ + 1]
       ELSE ranks' = [ranks EXCEPT ![p].at = "done"]
    /\ UNCHANGED <<basis_files, reads, elsewhere>>

InitRerunMPI ==
    /\ AccIdle
    /\ SolveIdle
    /\ GradIdle
    /\ LoewdinIdle
    /\ MpiIdle
    /\ ranks = [p \in Procs |-> [n |-> 1, at |-> "Bcast_basis", i |-> 0,
                                 k |-> 0, nb |-> 0]]
    /\ basis_files = [i \in 0..(MaxMols - 1) |-> "absent"]
    /\ reads = {}

NextRerunMPI ==
    \E p \in Procs :
        \/ RerunBcastBasis(p)
        \/ RerunSolverBcast(p)
        \/ RerunConverged(p)
        \/ RerunSave(p)
        \/ RerunSaved(p)
        \/ RerunLoad(p)
        \/ RerunPair(p)
        \/ RerunReturn(p)

SpecRerunMPI == InitRerunMPI /\ [][NextRerunMPI]_vars

\* ------------------------------------------------- claims on the accumulator
\* a float64 entry read as a complex number
cplx(x) == [re |-> x, im |-> 0]

\* the shape of an array: (n, n) in the training indices
Shape2(arr, n) ==
    /\ DOMAIN arr = Trn(n)
    /\ \A a \in Trn(n) : DOMAIN arr[a] = Trn(n)

(* C1: an append to a training set of size N returns arrays of training    *)
(* dimension N+1 whose leading N x N block equals the arrays passed in,    *)
(* entry for entry; the passed arrays are left as they were; every entry   *)
(* outside the leading block lies in row N or column N.  This holds for    *)
(* each of the three accumulators.                                         *)
C1_LeadingBlockKept ==
    nmols >= 1 =>
      /\ Shape2(overlap, nmols)
      /\ Shape2(one_rdm, nmols)
      /\ Shape2(two_rdm, nmols)
      /\ Shape2(in_overlap, nmols - 1)
      /\ Shape2(in_one_rdm, nmols - 1)
      /\ Shape2(in_two_rdm, nmols - 1)
      /\ \A a \in Trn(nmols - 1), b \in Trn(nmols - 1) :
            /\ overlap[a][b] = in_overlap[a][b]
            /\ one_rdm[a][b] = in_one_rdm[a][b]
            /\ two_rdm[a][b] = in_two_rdm[a][b]
      /\ arg_overlap = in_overlap
      /\ arg_one_rdm = in_one_rdm
      /\ arg_two_rdm = in_two_rdm
      /\ \A a \in Trn(nmols), b \in Trn(nmols) :
            (a \notin Trn(nmols - 1) \/ b \notin Trn(nmols - 1))
               => (a = nmols - 1 \/ b = nmols - 1)

\* a third append by the OAO accumulator onto arrays that hold values other
\* than the initial ones
C1_Witness ==
    /\ nmols = 3
    /\ called = "OAO_basis"
    /\ in_overlap[1][0] # 1
    /\ in_two_rdm[0][1][1][0][1][1] # 1

(* C2 as claimed: after N >= 1 appends the overlap array is N x N, every   *)
(* diagonal entry is 1 and overlap[i,j] = conj(overlap[j,i]), whatever the *)
(* solver returns.                                                         *)
C2_UnitDiagonalWhateverSolver ==
    nmols >= 1 =>
      /\ Shape2(overlap, nmols)
      /\ \A i \in Trn(nmols) : overlap[i][i] = 1
      /\ \A i \in Trn(nmols), j \in Trn(nmols) :
            cplx(overlap[i][j]) = conj(cplx(overlap[j][i]))

(* C2 as amended: after N >= 1 appends the overlap array is N x N,         *)
(* overlap[i,j] = conj(overlap[j,i]) for all i, j, and the diagonal entry  *)
(* overlap[i,i] is the real part of the self-overlap the solver returned   *)
(* for state i at the append that added it (1 when that answer is 1).      *)
C2_HermitianSolverDiagonal ==
    nmols >= 1 =>
      /\ Shape2(overlap, nmols)
      /\ Len(self_ovlp) = nmols
      /\ \A i \in Trn(nmols) : overlap[i][i] = self_ovlp[i + 1].re
      /\ \A i \in Trn(nmols) :
            self_ovlp[i + 1] = cplx(1) => overlap[i][i] = 1
      /\ \A i \in Trn(nmols), j \in Trn(nmols) :
            cplx(overlap[i][j]) = conj(cplx(overlap[j][i]))

\* three appends, with an off-diagonal overlap other than one and a
\* self-overlap that is not one
C2_Witness ==
    /\ nmols = 3
    /\ overlap[2][0] # 1
    /\ overlap[0][2] = overlap[2][0]
    /\ \E i \in 0..2 : overlap[i][i] # 1

(* C3: the one-body t-RDM satisfies one_RDM[i,j][p,q] =                    *)
(* conj(one_RDM[j,i][q,p]) for all training indices i, j: the block        *)
(* mirrored into slot [i, N] is the conjugate of the block written into    *)
(* slot [N, i] with its two orbital indices transposed; the two-body block *)
(* is mirrored, conjugated, into the transposed training slot.             *)
C3_OneRdmHermitian ==
    nmols >= 1 =>
      /\ \A i \in Trn(nmols), j \in Trn(nmols), p \in Orb, q \in Orb :
            cplx(one_rdm[i][j][p][q]) = conj(cplx(one_rdm[j][i][q][p]))
      /\ \A i \in Trn(nmols - 1), p \in Orb, q \in Orb :
            cplx(one_rdm[i][nmols - 1][p][q])
               = conj(cplx(as_float(solved[i].rdm1[q][p])))
      /\ \A i \in Trn(nmols), j \in Trn(nmols) :
            two_rdm[i][j] = as_float4(conj4([p \in Orb |-> [q \in Orb |->
                               [r \in Orb |-> [t \in Orb |->
                                   cplx(two_rdm[j][i][p][q][r][t])]]]]))


\* ------------------------------------------ claims on the eigenproblem solver
SupportedRanks == {6, 5, 3, 2}

\* the eigenvalue indices with an imaginary part strictly below / not above
\* the tolerance, read off the library's answer
StrictSurvivors(ans) == {k \in DOMAIN ans.vals : Abs(ans.vals[k].im) < ImagTol}
LooseSurvivors(ans) == {k \in DOMAIN ans.vals : Abs(ans.vals[k].im) <= ImagTol}

\* column c of the library's eigenvector matrix
Column(ans, c) == [x \in DOMAIN ans.vecs |-> ans.vecs[x][c]]

\* the caller's logical inputs
TheH1 == h1_of(sample)
TheH2 == h2_of(sample)
TheOneRDM == one_RDM_of(sample, n_trn)
TheTwoRDM == two_RDM_of(sample, n_trn)

\* twice the direct contraction 1/2 sum_pqrs T[a,b,p,q,r,s] h2[p,q,r,s]
DirectTwoBody(a, b) ==
    SumTo([u \in 0..(Norb * Norb - 1) |->
        SumTo([v \in 0..(Norb * Norb - 1) |->
            TheTwoRDM[a][b][u \div Norb][u % Norb][v \div Norb][v % Norb]
              * TheH2[u \div Norb][u % Norb][v \div Norb][v % Norb]],
              Norb * Norb)], Norb * Norb)

\* twice sum_pq one_RDM[a,b,p,q] h1[p,q]
DirectOneBody(a, b) ==
    2 * SumTo([u \in 0..(Norb * Norb - 1) |->
        TheOneRDM[a][b][u \div Norb][u % Norb] * TheH1[u \div Norb][u % Norb]],
        Norb * Norb)

(* C4: approximate_ground_state called with the same logical two-body      *)
(* t-RDM in any of the four supported layouts poses the same eigenproblem  *)
(* (the same Hamiltonian on the entries the eigensolver reads) as the call *)
(* with the full 6-index layout, and returns the same energy and           *)
(* eigenvector; the exchange-packed contraction with                       *)
(* compress_electron_exchange_symmetry(h2, 0.5) is one half of the direct  *)
(* 4-index contraction of two_RDM[a,b] with h2.                            *)
C4_LayoutsAgree ==
    (res.fn = "ground_state" /\ res.rank \in SupportedRanks
        /\ ref.fn = "ground_state") =>
      /\ res.solved /\ ref.solved
      /\ res.key = ref.key
      /\ res.status = ref.status
      /\ res.en = ref.en
      /\ res.vec = ref.vec
      /\ res.rank = 3 =>
           two_body_exchange(two_RDM_in(TheTwoRDM, n_trn, 3), TheH2, n_trn)
             = [a \in Trn(n_trn) |-> [b \in Trn(n_trn) |-> DirectTwoBody(a, b)]]
      /\ res.rank = 2 =>
           two_body_both(two_RDM_in(TheTwoRDM, n_trn, 2), TheH2, n_trn)
             = [k \in 0..(TriLen(n_trn) - 1) |->
                  DirectTwoBody(tril_indices(n_trn)[k][1],
                                tril_indices(n_trn)[k][2])]

\* a both-packed call after a full call, two training states, general solver
C4_Witness ==
    /\ res.fn = "ground_state" /\ res.rank = 2 /\ res.status = "ok"
    /\ ref.fn = "ground_state" /\ ref.rank = 6
    /\ n_trn = 2 /\ ~hermitian
    /\ res.H[1][0] # 0 /\ res.H[0][1] = res.H[1][0]

(* C5 as claimed: approximate_ground_state discards every eigenpair whose  *)
(* eigenvalue has an imaginary part exceeding 1e-5 in magnitude and keeps  *)
(* all others; the returned energy is the smallest real part among the     *)
(* kept ones and the vector is the column paired with it.                  *)
C5_KeepsUpToTolerance ==
    (res.fn = "ground_state" /\ res.solved /\ LooseSurvivors(res.ans) # {}) =>
      /\ res.status = "ok"
      /\ \A k \in LooseSurvivors(res.ans) : res.en <= res.ans.vals[k].re
      /\ \E c \in LooseSurvivors(res.ans) :
           res.en = res.ans.vals[c].re /\ res.vec = Column(res.ans, c)

(* C5 amended: approximate_ground_state keeps exactly the eigenpairs whose *)
(* eigenvalue has an imaginary part strictly below 1e-5 in magnitude (one  *)
(* of magnitude exactly 1e-5 is discarded); the returned energy is the     *)
(* smallest real part among the kept ones and the vector is the column     *)
(* paired with that eigenvalue.                                            *)
C5_KeepsBelowTolerance ==
    (res.fn = "ground_state" /\ res.solved /\ StrictSurvivors(res.ans) # {}) =>
      /\ res.status = "ok"
      /\ \A k \in StrictSurvivors(res.ans) : res.en <= res.ans.vals[k].re
      /\ \E c \in StrictSurvivors(res.ans) :
           res.en = res.ans.vals[c].re /\ res.vec = Column(res.ans, c)

\* the first eigenvalue sits on the tolerance and has the smaller real part,
\* the second one is kept
C5_Witness ==
    /\ res.fn = "ground_state" /\ res.status = "ok" /\ n_trn = 2
    /\ res.ans.vals[0].im = ImagTol
    /\ res.ans.vals[0].re < res.ans.vals[1].re
    /\ res.vec = Column(res.ans, 1)

(* C6: approximate_ground_state and approximate_multistate abort with a    *)
(* failure whenever the rank of two_RDM is not 6, 5, 3 or 2: no            *)
(* eigenproblem is solved, no energy and no vector is produced.            *)
C6_BadRankAborts ==
    (res.fn \in {"ground_state", "multistate"} /\ res.rank \notin SupportedRanks) =>
      /\ res.status = "AssertionError"
      /\ ~res.solved
      /\ res.en = None
      /\ res.vec = None

\* a multistate call with a 4-index two_RDM after a call that succeeded
C6_Witness ==
    /\ res.fn = "multistate" /\ res.rank = 4 /\ res.status = "AssertionError"
    /\ ref.fn = "ground_state" /\ ref.status = "ok"

(* C7 as claimed: the solver fails with an assertion whenever fewer        *)
(* eigenvalues survive the filter than roots are requested:                *)
(* approximate_multistate when the count is below nroots and               *)
(* approximate_ground_state when none survives.                            *)
C7_FailsWithAssertion ==
    /\ (res.fn = "multistate" /\ res.solved
          /\ Cardinality(StrictSurvivors(res.ans)) < res.nroots) =>
         res.status = "AssertionError"
    /\ (res.fn = "ground_state" /\ res.solved
          /\ StrictSurvivors(res.ans) = {}) =>
         res.status = "AssertionError"

(* C7 amended: the solver fails, returning no partial result, whenever     *)
(* fewer eigenvalues survive the filter than roots are requested:          *)
(* approximate_multistate with an assertion when the count is below        *)
(* nroots, approximate_ground_state with the ValueError np.argmin raises   *)
(* on an empty array when none survives.                                   *)
C7_FailsWithoutResult ==
    /\ (res.fn = "multistate" /\ res.solved
          /\ Cardinality(StrictSurvivors(res.ans)) < res.nroots) =>
         res.status = "AssertionError" /\ res.en = None /\ res.vec = None
    /\ (res.fn = "ground_state" /\ res.solved
          /\ StrictSurvivors(res.ans) = {}) =>
         res.status = "ValueError" /\ res.en = None /\ res.vec = None

\* two roots requested of a spectrum with one survivor
C7_Witness ==
    /\ res.fn = "multistate" /\ res.solved /\ res.nroots = 2 /\ n_trn = 2
    /\ Cardinality(StrictSurvivors(res.ans)) = 1
    /\ res.status = "AssertionError"

(* C8: approximate_multistate with nroots = k, 1 <= k <= number of         *)
(* surviving eigenvalues, returns k energies in non-decreasing order, the  *)
(* k smallest real parts among the survivors; row r of the eigenvector     *)
(* array is the column paired with the r-th energy; the first energy is    *)
(* the energy approximate_ground_state returns on the same inputs.         *)
C8_MultistateRoots ==
    (res.fn = "multistate" /\ res.solved /\ res.nroots >= 1
        /\ res.nroots <= Cardinality(StrictSurvivors(res.ans))) =>
      /\ res.status = "ok"
      /\ DOMAIN res.en = 1..res.nroots
      /\ DOMAIN res.vec = 1..res.nroots
      /\ \A r \in 1..(res.nroots - 1) : res.en[r] <= res.en[r + 1]
      /\ \E sel \in [1..res.nroots -> StrictSurvivors(res.ans)] :
           /\ \A r, q \in 1..res.nroots : r # q => sel[r] # sel[q]
           /\ \A r \in 1..res.nroots :
                /\ res.en[r] = res.ans.vals[sel[r]].re
                /\ res.vec[r] = Column(res.ans, sel[r])
           /\ \A c \in StrictSurvivors(res.ans) :
                (\A r \in 1..res.nroots : sel[r] # c) =>
                   res.ans.vals[c].re >= res.en[res.nroots]
      /\ (ref.fn = "ground_state" /\ res.rank \in SupportedRanks) =>
           ref.status = "ok" /\ res.en[1] = ref.en

\* both roots of a spectrum the library returned in descending order
C8_Witness ==
    /\ res.fn = "multistate" /\ res.status = "ok" /\ res.nroots = 2
    /\ n_trn = 2 /\ ~hermitian
    /\ res.ans.vals[0].re > res.ans.vals[1].re
    /\ res.en[1] < res.en[2]
    /\ ref.fn = "ground_state"

(* C9: for a training set of size 1 with S = [[1]],                        *)
(* approximate_ground_state returns the energy                             *)
(* sum_pq one_RDM[0,0,p,q] h1[p,q] + 1/2 sum_pqrs two_RDM[0,0,p,q,r,s]     *)
(* h2[p,q,r,s] exactly, and the eigenvector [+1] or [-1].                  *)
C9_SingleStateExact ==
    (n_trn = 1 /\ res.fn = "ground_state" /\ res.rank \in SupportedRanks) =>
      /\ res.status = "ok"
      /\ res.en = DirectOneBody(0, 0) + DirectTwoBody(0, 0)
      /\ res.key.S[0][0] = 1
      /\ \/ res.vec = [x \in Trn(1) |-> 1]
         \/ res.vec = [x \in Trn(1) |-> 0 - 1]

\* the library normalised the single eigenvector to [-1]
C9_Witness ==
    /\ n_trn = 1 /\ res.fn = "ground_state" /\ res.rank = 6
    /\ res.status = "ok" /\ res.vec[0] = 0 - 1
    /\ res.en > 0

\* ------------------------------------------- claims on get_energy_with_grad
\* P1[p,q] = sum_ij v_i one_RDM[i,j,p,q] v_j
PredictedOneBody(v) ==
    [p \in Orb |-> [q \in Orb |->
        SumTo([i \in Trn(n_trn) |-> SumTo([j \in Trn(n_trn) |->
            v[i] * TheOneRDM[i][j][p][q] * v[j]], n_trn)], n_trn)]]

\* P2[p,q,r,s] = sum_ij v_i two_RDM[i,j,p,q,r,s] v_j
PredictedTwoBody(v) ==
    [p \in Orb |-> [q \in Orb |-> [r \in Orb |-> [t \in Orb |->
        SumTo([i \in Trn(n_trn) |-> SumTo([j \in Trn(n_trn) |->
            v[i] * TheTwoRDM[i][j][p][q][r][t] * v[j]], n_trn)], n_trn)]]]]

\* twice sum_pq P1[p,q] dh1[p,q,A,x] + 1/2 sum_pqrs P2[p,q,r,s] dh2[p,q,r,s,A,x]
ElectronicGradient(v, A, x) ==
    2 * SumTo([u \in 0..(Norb * Norb - 1) |->
            PredictedOneBody(v)[u \div Norb][u % Norb]
              * mol_h1_jac(mol)[u \div Norb][u % Norb][A][x]], Norb * Norb)
    + SumTo([u \in 0..(Norb * Norb - 1) |->
        SumTo([w \in 0..(Norb * Norb - 1) |->
            PredictedTwoBody(v)[u \div Norb][u % Norb][w \div Norb][w % Norb]
              * mol_h2_jac(mol)[u \div Norb][u % Norb][w \div Norb][w % Norb][A][x]],
              Norb * Norb)], Norb * Norb)

(* C10: get_energy_with_grad returns the gradient                          *)
(* G[atom,xyz] = sum_pq P1[p,q] dh1[p,q,atom,xyz]                          *)
(*   + 1/2 sum_pqrs P2[p,q,r,s] dh2[p,q,r,s,atom,xyz] + nuclear gradient,  *)
(* of shape (Natm, 3), with P1 and the full 4-index P2 contracted from the *)
(* solver's eigenvector, and the energy = electronic energy + nuclear      *)
(* repulsion.                                                              *)
C10_GradientFromDensities ==
    (res.fn = "ground_state" /\ res.status = "ok") =>
      /\ grad.status = "ok"
      /\ grad.energy = res.en + 2 * mol_energy_nuc(mol)
      /\ DOMAIN grad.gradient = Atoms
      /\ \A A \in Atoms :
           /\ DOMAIN grad.gradient[A] = Xyz
           /\ \A x \in Xyz :
                grad.gradient[A][x] =
                    ElectronicGradient(res.vec, A, x) + 2 * mol_grad_nuc(mol)[A][x]

\* the parts of C10 the code does satisfy: the energy and the shape
C10_EnergyAndShape ==
    (res.fn = "ground_state" /\ res.status = "ok") =>
      /\ grad.status = "ok"
      /\ grad.energy = res.en + 2 * mol_energy_nuc(mol)
      /\ DOMAIN grad.gradient = Atoms
      /\ \A A \in Atoms : DOMAIN grad.gradient[A] = Xyz

\* --------------------------------------- claims on failures and persistence
\* the positions of the log at which a solver call failed
FailedSolves(log) ==
    {k \in DOMAIN log : log[k].op = "solve" /\ log[k].val = "failed"}

(* C11: if converge_dmrg_fun signals failure at any of its invocations     *)
(* during an append (the solve for the new geometry or, in the rerun       *)
(* strategy, a re-solve of a prior state), the append raises that failure: *)
(* the failed call is the last thing it did (no retry, no further overlap  *)
(* or t-RDM), and the driver receives no arrays, so it holds what it held. *)
C11_SolverFailureRaised ==
    [][ FailedSolves(last'.log) # {} =>
          /\ last'.raised = "solver"
          /\ FailedSolves(last'.log) = {Len(last'.log)}
          /\ \A j \in 1..(Len(last'.log) - 1) :
                last'.log[j].key # last'.log[Len(last'.log)].key
          /\ UNCHANGED <<nmols, overlap, one_rdm, two_rdm>> ]_vars

\* the third append of the rerun strategy fails at the re-solve of state 1,
\* after the pair with state 0 was evaluated
C11_Witness ==
    /\ last.fn = "rerun" /\ last.raised = "solver" /\ nmols = 2
    /\ last.log[Len(last.log)].key = MPS_of(2, 1)
    /\ \E k \in DOMAIN last.log : last.log[k].op = "pair"

\* ------------------------------------------- claims on loewdin_trafo_grad
\* the eigenvalues i and j round to the same value at 5 decimals; written
\* out with the half-way case going to the even multiple
SameAtFiveDecimals(x, y) ==
    \E c \in {10 * (x \div 10), 10 * (x \div 10) + 10} :
        \A v \in {x, y} :
            \/ 2 * Abs(v - c) < 10
            \/ 2 * Abs(v - c) = 10 /\ (c \div 10) % 2 = 0

(* C12: loewdin_trafo_grad divides by vals[j] - vals[i] only for pairs     *)
(* (i, j) whose eigenvalues round to different values at 5 decimals; for   *)
(* every other pair (every diagonal pair, every pair of equal eigenvalues) *)
(* Zji is exactly zero.  No division by a zero difference occurs.          *)
C12_NoDivisionByZero ==
    Z # None =>
      \A a \in Ao, b \in Ao, i \in Ao, j \in Ao :
        /\ Z[a][b][i][j].den # 0
        /\ IF SameAtFiveDecimals(ovlp_vals[i], ovlp_vals[j])
           THEN Z[a][b][i][j] = Zero
           ELSE Z[a][b][i][j] =
                   Quotient(Vji_of(v_sample)[a][b][i][j],
                            ovlp_vals[j] - ovlp_vals[i])
        /\ (i = j \/ ovlp_vals[i] = ovlp_vals[j]) => Z[a][b][i][j] = Zero

\* an exactly twofold degenerate spectrum went through
C12_Witness ==
    /\ Z # None
    /\ ovlp_vals[0] = ovlp_vals[1]
    /\ ovlp_vals[0] = 15
    /\ Z[0][1][0][1] = Zero

\* ---------------------------------- claims on the data-symmetry-packed path
\* the k-th pair (a, b) with a >= b in row-major order
RowMajorLower(k) ==
    CHOOSE ab \in Trn(n_trn) \X Trn(n_trn) :
        ab[2] <= ab[1] /\ (ab[1] * (ab[1] + 1)) \div 2 + ab[2] = k

\* twice the two-body contribution of the k-th block of the packed two_RDM
\* the caller passed: 1/2 sum_pqrs two_RDM[k,p,q,r,s] h2[p,q,r,s]
PackedTwoBody(k) ==
    LET block == pack_data(TheTwoRDM, n_trn)[k]
    IN  SumTo([u \in 0..(Norb * Norb - 1) |->
            SumTo([v \in 0..(Norb * Norb - 1) |->
                block[u \div Norb][u % Norb][v \div Norb][v % Norb]
                  * TheH2[u \div Norb][u % Norb][v \div Norb][v % Norb]],
                  Norb * Norb)], Norb * Norb)

(* C13: for a data-symmetry-packed two_RDM (rank 5 or 2) the k-th packed   *)
(* two-body contribution is added to the k-th lower-triangular entry       *)
(* (a >= b, row-major) of H and to no other entry.  With hermitian=False   *)
(* the upper triangle is then overwritten from the lower one, so           *)
(* H[a,b] = conj(H[b,a]) for all a, b; with hermitian=True the strict      *)
(* upper triangle holds the one-body contribution only.                    *)
C13_PackedPlacement ==
    (res.solved /\ res.rank \in {5, 2}) =>
      /\ \A k \in 0..(TriLen(n_trn) - 1) :
           res.H[RowMajorLower(k)[1]][RowMajorLower(k)[2]]
             = DirectOneBody(RowMajorLower(k)[1], RowMajorLower(k)[2])
                 + PackedTwoBody(k)
      /\ \A a \in Trn(n_trn), b \in Trn(n_trn) :
           a < b =>
             IF hermitian THEN res.H[a][b] = DirectOneBody(a, b)
             ELSE res.H[a][b] = res.H[b][a]

\* a multistate call with the 5-index layout and the general solver: the
\* upper entry carries the two-body term of the lower one
C13_Witness ==
    /\ res.fn = "multistate" /\ res.solved /\ res.rank = 5
    /\ n_trn = 2 /\ ~hermitian
    /\ res.H[0][1] = DirectOneBody(1, 0) + PackedTwoBody(1)
    /\ PackedTwoBody(1) # 0


\* ------------------------------------------------- claims on the broadcasts
\* what append_to_rdms_orbital_rotation returns on the root
RootResult == trained(job.n, job.s)

OrbPairs == {<<i, j>> : i \in Orb, j \in Orb}

\* C14: once a process has returned from append_to_rdms_orbital_rotation its
\* overlap, one_RDM and two_RDM equal the root's computed arrays (which is
\* what one whole-array broadcast would give), the slice-wise broadcast gave it
\* every (i, j) slice of the six-index two_RDM exactly once, and every process
\* that has called the solver passed it the root's h1 and h2.
C14_BroadcastsAgree ==
    \A p \in Procs :
        /\ world[p].pc = AfterReturn =>
             /\ world[0].pc > AtFill
             /\ world[p].overlap_new = world[0].overlap_new
             /\ world[p].one_rdm_new = world[0].one_rdm_new
             /\ world[p].two_rdm_new = world[0].two_rdm_new
             /\ world[p].overlap_new = RootResult.overlap_new
             /\ world[p].one_rdm_new = RootResult.one_rdm_new
             /\ world[p].two_rdm_new = RootResult.two_rdm_new
             /\ Len(world[p].got) = Cardinality(OrbPairs)
             /\ {world[p].got[k] : k \in DOMAIN world[p].got} = OrbPairs
        /\ world[p].pc > AtSolver =>
             /\ world[p].solver_h1 = world[0].h1
             /\ world[p].solver_h2 = world[0].h2
             /\ world[p].solver_h1 = get_integrals(job.s, 1, 0).h1
             /\ world[p].solver_h2 = get_integrals(job.s, 1, 0).h2

C14_Witness ==
    /\ job # None
    /\ job.n = 2
    /\ \A p \in Procs : world[p].pc = AfterReturn
    /\ get_integrals(job.s, 0, 1).h2 # world[1].solver_h2
    /\ world[1].two_rdm_new # orbital_rotation_alloc(2,
           trained(1, job.s).overlap_new, trained(1, job.s).one_rdm_new,
           trained(1, job.s).two_rdm_new).two_rdm_new

\* ------------------------------------------- claims on the shared basis files
\* C15: in append_to_rdms_rerun on more than one process, every read of the
\* basis file of training index i, by any process in any interleaving, finds
\* the file the root has completely written (the newest index and the first
\* call included).
C15_ReadsAfterWrite ==
    \A r \in reads : r.found = "written"

\* ------------------------------------------------ claims on the persisted state
\* the keys that belong to training index n
KeysOf(n) ==
    {MPS(n), basis_file(n), scratch_tag} \cup {MPS_of(n, i) : i \in 0..(n - 1)}

\* the basis files and wavefunction tags of the indices before n
EarlierKeys(n) ==
    {MPS(i) : i \in 0..(n - 1)} \cup {basis_file(i) : i \in 0..(n - 1)}

\* the events of a call that wrote persisted state
Writes(log) ==
    {k \in DOMAIN log :
        \/ log[k].op \in {"save", "rotate"}
        \/ log[k].op = "solve" /\ log[k].val = "converged"}

\* the loads of a call that found their key
Loads(call) ==
    {k \in DOMAIN call.log :
        /\ call.log[k].op = "load"
        /\ k < Len(call.log) \/ call.raised # "FileNotFoundError"}

=============================================================================
